---- MODULE Spec2Model ----
(***************************************************************************)
(* A model of the AQACS HTS service: the snapshot resolver                 *)
(* (src/common/snapshot.py), the section classifier                        *)
(* (src/common/sections.py), the tariff Store (src/common/store.py) and    *)
(* the request handlers of the v1 router (src/api/routes/v1.py): /tariff,  *)
(* /search, /semantic_search and the retrieval-augmented /qa pipeline with *)
(* its memoised extractive-QA capability.                                  *)
(*                                                                         *)
(* Python values whose type the code does not fix are tagged records:      *)
(*   [t |-> "none"], [t |-> "str", v |-> s], [t |-> "int", v |-> n],       *)
(*   [t |-> "list", v |-> <<...>>], [t |-> "dict", v |-> <<pairs>>]; a dict  *)
(* is the sequence of its <<key, value>> pairs in insertion order.          *)
(* Python str is a TLA+ string; scores are hundredths (0.2 is 20).         *)
(***************************************************************************)
EXTENDS Integers, Sequences, FiniteSets, TLC

VARIABLES
    marker,     \* the active-version marker file (src/common/snapshot.py:4)
    environ,    \* the process environment, a function from names to str
    snapCall,   \* the last active_snapshot_id() call: its inputs and outcome
    pc,         \* per worker thread: where its request handler stands
    req,        \* per worker thread: the request it is handling
    loc,        \* per worker thread: the handler's local variables
    resp,       \* per worker thread: how the handler ended
    qaCache,    \* the lru_cache of get_qa_pipeline: 0 when empty, else the instance
    qaBuilt,    \* how many times pipeline(...) has been constructed
    fsys,       \* the snapshot root: per snapshot directory, its CSV files in name order
    store,      \* the module-level Store of the v1 router (src/api/routes/v1.py:15)
    call,       \* the last direct call of a function or of /tariff, /search
    writer,     \* where the process that runs set_active stands
    readers     \* per reader: where its active_snapshot_id() call stands

snapVars == <<marker, environ, snapCall>>
reqVars == <<pc, req, loc, resp, qaCache, qaBuilt>>
auxVars == <<fsys, store, call, writer, readers>>
vars == <<marker, environ, snapCall, pc, req, loc, resp, qaCache, qaBuilt,
          fsys, store, call, writer, readers>>

----------------------------------------------------------------------------
(* Python values *)

NoneVal == [t |-> "none"]
StrVal(s) == [t |-> "str", v |-> s]
IntVal(n) == [t |-> "int", v |-> n]
ListVal(xs) == [t |-> "list", v |-> xs]
DictVal(f) == [t |-> "dict", v |-> f]


----------------------------------------------------------------------------
(* Python str and dict operations used by the handlers *)

IsSpace(c) == c \in {" ", "\t", "\n", "\r", "\f"}

RECURSIVE lstrip(_)
lstrip(s) ==
    IF Len(s) > 0 /\ IsSpace(SubSeq(s, 1, 1))
    THEN lstrip(SubSeq(s, 2, Len(s))) ELSE s

RECURSIVE rstrip(_)
rstrip(s) ==
    IF Len(s) > 0 /\ IsSpace(SubSeq(s, Len(s), Len(s)))
    THEN rstrip(SubSeq(s, 1, Len(s) - 1)) ELSE s

\* str.strip()
strip(s) == rstrip(lstrip(s))

\* s[:n]
Prefix(s, n) == IF Len(s) <= n THEN s ELSE SubSeq(s, 1, n)

\* s.rsplit(" ", 1)[0]: what precedes the last space, s itself without one
rsplit_head(s) ==
    LET spaces == {i \in 1..Len(s) : SubSeq(s, i, i) = " "}
    IN  IF spaces = {} THEN s
        ELSE SubSeq(s, 1, (CHOOSE i \in spaces : \A j \in spaces : j <= i) - 1)

\* sep.join(parts)
RECURSIVE join(_, _)
join(sep, parts) ==
    IF Len(parts) = 0 THEN ""
    ELSE IF Len(parts) = 1 THEN parts[1]
    ELSE parts[1] \o sep \o join(sep, Tail(parts))

\* bool(val)
Truthy(val) ==
    CASE val.t = "none" -> FALSE
      [] val.t = "str" -> val.v # ""
      [] val.t = "int" -> val.v # 0
      [] val.t = "list" -> Len(val.v) > 0
      [] OTHER -> Len(val.v) > 0

\* a or b
Or(a, b) == IF Truthy(a) THEN a ELSE b

\* a dict with insertion order is a sequence of <<key, value>> pairs
HasKey(d, k) == \E i \in 1..Len(d) : d[i][1] = k
\* d.get(k)
Get(d, k) ==
    IF HasKey(d, k) THEN d[CHOOSE i \in 1..Len(d) : d[i][1] = k][2] ELSE NoneVal

----------------------------------------------------------------------------
(* src/common/snapshot.py *)

\* The marker file as the file system and the JSON parser see it.
NoFile == [kind |-> "absent"]
Unreadable == [kind |-> "unreadable"]        \* exists, read_text raises OSError
Undecodable == [kind |-> "undecodable"]      \* exists, bytes are not UTF-8
InvalidJson == [kind |-> "invalid_json"]     \* text json.loads rejects
JsonFile(val) == [kind |-> "json", doc |-> val]

\* json.dumps({"snapshot_id": snapshot_id}) read back by json.loads
MarkerDoc(snapshot_id) == DictVal(<< <<"snapshot_id", StrVal(snapshot_id)>> >>)

PLACEHOLDER == "US-HTS-YYYY-MM-DD"

Returned(val) == [raised |-> "none", value |-> val]
Raised(exc) == [raised |-> exc, value |-> NoneVal]

\* Path(path).exists()
exists(file) == file.kind # "absent"

\* get_active: json.loads(Path(path).read_text(encoding="utf-8"))["snapshot_id"]
get_active(file) ==
    CASE file.kind \in {"absent", "unreadable"} -> Raised("OSError")
      [] file.kind = "undecodable" -> Raised("UnicodeDecodeError")
      [] file.kind = "invalid_json" -> Raised("JSONDecodeError")
      [] OTHER ->
           IF file.doc.t # "dict" THEN Raised("TypeError")
           ELSE IF ~HasKey(file.doc.v, "snapshot_id") THEN Raised("KeyError")
           ELSE Returned(Get(file.doc.v, "snapshot_id"))

\* the except clause of active_snapshot_id
CaughtByResolver == {"OSError", "JSONDecodeError", "KeyError"}

\* os.getenv(name, default)
getenv(env, name, default) ==
    IF name \in DOMAIN env THEN StrVal(env[name]) ELSE default

\* active_snapshot_id(default) evaluated on a marker file and an environment
active_snapshot_id(default, file, env) ==
    LET r == IF exists(file) THEN get_active(file) ELSE Raised("OSError")
        dflt == IF default = NoneVal THEN StrVal(PLACEHOLDER) ELSE default
    IN  IF exists(file) /\ r.raised = "none" THEN r
        ELSE IF exists(file) /\ r.raised \notin CaughtByResolver THEN r
        ELSE Returned(getenv(env, "SNAPSHOT_ID", dflt))

\* set_active(snapshot_id): mkdir(parents) and write_text(json.dumps(...))
set_active(snapshot_id) == JsonFile(MarkerDoc(snapshot_id))

----------------------------------------------------------------------------
(* src/common/sections.py *)

SECTIONS ==
    << <<1, 5, "I">>, <<6, 14, "II">>, <<15, 15, "III">>, <<16, 24, "IV">>,
       <<25, 27, "V">>, <<28, 38, "VI">>, <<39, 40, "VII">>, <<41, 43, "VIII">>,
       <<44, 46, "IX">>, <<47, 49, "X">>, <<50, 63, "XI">>, <<64, 67, "XII">>,
       <<68, 70, "XIII">>, <<71, 83, "XIV">>, <<84, 85, "XV">>,
       <<86, 89, "XVI">>, <<90, 92, "XVII">>, <<93, 94, "XVIII">>,
       <<95, 95, "XIX">>, <<96, 96, "XX">>, <<97, 97, "XXI">>,
       <<98, 99, "XXII">> >>

\* the loop with "lo < int(ch) <= hi"
RECURSIVE SectionScanOpenBelow(_, _)
SectionScanOpenBelow(n, i) ==
    IF i > Len(SECTIONS) THEN NoneVal
    ELSE IF SECTIONS[i][1] < n /\ n <= SECTIONS[i][2] THEN StrVal(SECTIONS[i][3])
    ELSE SectionScanOpenBelow(n, i + 1)

\* the loop of chapter_to_section from SECTIONS[i] on, for int(ch) = n
RECURSIVE SectionScan(_, _)
SectionScan(n, i) ==
    IF i > Len(SECTIONS) THEN NoneVal
    ELSE IF SECTIONS[i][1] <= n /\ n <= SECTIONS[i][2] THEN StrVal(SECTIONS[i][3])
    ELSE SectionScan(n, i + 1)

\* chapter_to_section(ch) for ch None or an int
chapter_to_section(ch) ==
    IF ch = NoneVal THEN NoneVal ELSE SectionScan(ch.v, 1)

----------------------------------------------------------------------------
(* src/common/store.py *)

UPPERCASE == "ABCDEFGHIJKLMNOPQRSTUVWXYZ"
LOWERCASE == "abcdefghijklmnopqrstuvwxyz"
DIGITS == "0123456789"

\* the lower-case letter of each upper-case letter
LowerOf ==
    [ c \in {SubSeq(UPPERCASE, i, i) : i \in 1..Len(UPPERCASE)} |->
        LET i == CHOOSE i \in 1..Len(UPPERCASE) : SubSeq(UPPERCASE, i, i) = c
        IN  SubSeq(LOWERCASE, i, i) ]

\* str.lower() on the ASCII letters
RECURSIVE lower(_)
lower(s) ==
    IF Len(s) = 0 THEN ""
    ELSE LET c == SubSeq(s, 1, 1)
         IN  (IF c \in DOMAIN LowerOf THEN LowerOf[c] ELSE c)
             \o lower(SubSeq(s, 2, Len(s)))

\* s.replace(c, "") for a one-character c
RECURSIVE remove(_, _)
remove(s, c) ==
    IF Len(s) = 0 THEN ""
    ELSE (IF SubSeq(s, 1, 1) = c THEN "" ELSE SubSeq(s, 1, 1))
         \o remove(SubSeq(s, 2, Len(s)), c)

\* str.isdigit() on ASCII text
isdigit(s) ==
    /\ Len(s) > 0
    /\ \A i \in 1..Len(s) :
         \E d \in 1..Len(DIGITS) : SubSeq(DIGITS, d, d) = SubSeq(s, i, i)

\* int(s) for a string of ASCII digits
RECURSIVE int(_)
int(s) ==
    IF Len(s) = 0 THEN 0
    ELSE LET last == SubSeq(s, Len(s), Len(s))
             d == CHOOSE d \in 1..Len(DIGITS) : SubSeq(DIGITS, d, d) = last
         IN  10 * int(SubSeq(s, 1, Len(s) - 1)) + (d - 1)

\* d[k] = v on a dict
DictSet(d, k, v) ==
    IF HasKey(d, k)
    THEN [i \in 1..Len(d) |-> IF d[i][1] = k THEN <<k, v>> ELSE d[i]]
    ELSE Append(d, <<k, v>>)

\* _norm(s)
_norm(s) == remove(remove(remove(lower(strip(s)), " "), "/"), "-")

HEADER_MAP ==
    << <<"headingsubheading", StrVal("hs")>>, <<"statsuffix", StrVal("stat")>>,
       <<"articledescription", StrVal("article")>>,
       <<"unitofquantity", StrVal("uoq")>>, <<"generalrateofduty", StrVal("gen")>>,
       <<"specialrateofduty", StrVal("spec")>>,
       <<"column2rateofduty", StrVal("col2")>> >>

\* HEADER_MAP.get(_norm(h), _norm(h))
HeaderKey(h) ==
    LET n == _norm(h)
    IN  IF HasKey(HEADER_MAP, n) THEN Get(HEADER_MAP, n).v ELSE n

\* dict(zip(keys, row)) from position i on
RECURSIVE ZipDict(_, _, _, _)
ZipDict(keys, row, i, d) ==
    IF i > Len(keys) \/ i > Len(row) THEN d
    ELSE ZipDict(keys, row, i + 1, DictSet(d, keys[i], StrVal(row[i])))

\* a CSV file as csv.reader sees it: the header line and the lines after it
CsvFile(headers, lines) == [headers |-> headers, lines |-> lines]

\* _read_csv(fp): the dicts it yields
_read_csv(file) ==
    LET keys == [i \in 1..Len(file.headers) |-> HeaderKey(file.headers[i])]
    IN  [i \in 1..Len(file.lines) |-> ZipDict(keys, file.lines[i], 1, <<>>)]

\* _mk_rec(row)
_mk_rec(row) ==
    LET hs == Or(Get(row, "hs"), StrVal("")).v
        stat == strip(Or(Get(row, "stat"), StrVal("")).v)
        code10 == remove(hs \o stat, " ")
        chap == IF isdigit(Prefix(hs, 2)) THEN int(Prefix(hs, 2)) ELSE 0
    IN  [ hts10 |-> code10, chapter |-> chap, heading6 |-> Prefix(hs, 7),
          stat_suffix |-> stat, article |-> Get(row, "article"),
          uoq |-> Get(row, "uoq"), rate_general |-> Get(row, "gen"),
          rate_special |-> Get(row, "spec"), rate_col2 |-> Get(row, "col2") ]

\* the rows of the files of a snapshot directory, in file order
RECURSIVE RowsOfFiles(_)
RowsOfFiles(files) ==
    IF Len(files) = 0 THEN <<>>
    ELSE _read_csv(files[1]) \o RowsOfFiles(Tail(files))

\* "if rec[...]: self._index[...] = rec" dropped to "self._index[...] = rec"
IndexedAlways(index, rec) == DictSet(index, rec.hts10, rec)

\* lines 58-59: the index after one record
Indexed(index, rec) ==
    IF rec.hts10 # "" THEN DictSet(index, rec.hts10, rec) ELSE index

\* the loop body of _load_latest over the rows read, from row i on
RECURSIVE LoadRows(_, _, _)
LoadRows(rows, i, st) ==
    IF i > Len(rows) THEN st
    ELSE LET rec == _mk_rec(rows[i])
         IN  LoadRows(rows, i + 1,
                      [st EXCEPT !._rows = Append(@, rec),
                                 !._index = Indexed(@, rec)])

\* the Store before it is constructed
NoStore == [built |-> FALSE, snap |-> "", _rows |-> <<>>, _index |-> <<>>]

\* Store(): __init__ and _load_latest over the snapshot root
Store(root, env) ==
    LET snap == getenv(env, "SNAPSHOT_ID", StrVal(PLACEHOLDER)).v
        files == IF snap \in DOMAIN root THEN root[snap] ELSE <<>>
    IN  LoadRows(RowsOfFiles(files), 1,
                 [built |-> TRUE, snap |-> snap, _rows |-> <<>>, _index |-> <<>>])

\* Store.get_by_code(code)
get_by_code(st, code) == Get(st._index, remove(code, " "))

----------------------------------------------------------------------------
(* src/api/routes/v1.py: constants and pure helpers *)

MAX_CONTEXTS == 5
MAX_CONTEXT_CHARS == 1200
MIN_QA_SCORE == 20          \* float(os.getenv("QA_MIN_SCORE", "0.2")), in hundredths
MAX_LIMIT == 12             \* limit = max(1, min(req.limit, 12))
MIN_LIMIT == 1
EXCERPT_CHARS == 280        \* best["context"][:280]
MIN_QUERY_LEN == 2          \* Query(..., min_length=2)

NO_ANSWER == "No confident answer found; review the supporting sources."

\* _normalize_val(val)
RECURSIVE _normalize_val(_)
_normalize_val(val) ==
    CASE val.t = "none" -> ""
      [] val.t = "str" -> strip(val.v)
      [] val.t = "list" ->
           LET kept == SelectSeq(val.v, LAMBDA x : _normalize_val(x) # "")
           IN  join(", ", [i \in 1..Len(kept) |-> _normalize_val(kept[i])])
      [] OTHER -> strip(ToString(val.v))

preferred_keys ==
    << "Description", "Article Description", "article", "HTS Number", "htsno",
       "hts10", "Indent", "Unit of Quantity", "General Rate of Duty",
       "Special Rate of Duty", "Column 2 Rate of Duty", "Additional Duties",
       "Quota Quantity" >>

\* the first loop of _payload_context from preferred_keys[i] on
RECURSIVE PreferredPass(_, _, _, _)
PreferredPass(payload, i, seen, parts) ==
    IF i > Len(preferred_keys) THEN [seen |-> seen, parts |-> parts]
    ELSE LET key == preferred_keys[i]
         IN  IF HasKey(payload, key) /\ key \notin seen
             THEN LET val == _normalize_val(Get(payload, key))
                  IN  PreferredPass(payload, i + 1, seen \cup {key},
                        IF val # "" THEN Append(parts, key \o ": " \o val)
                        ELSE parts)
             ELSE PreferredPass(payload, i + 1, seen, parts)

\* the second loop of _payload_context from payload item i on
RECURSIVE RemainingPass(_, _, _, _)
RemainingPass(payload, i, seen, parts) ==
    IF i > Len(payload) THEN parts
    ELSE LET key == payload[i][1]
             norm == _normalize_val(payload[i][2])
         IN  IF key \in seen THEN RemainingPass(payload, i + 1, seen, parts)
             ELSE LET parts2 == IF norm # ""
                                THEN Append(parts, key \o ": " \o norm)
                                ELSE parts
                      seen2 == IF norm # "" THEN seen \cup {key} ELSE seen
                  IN  IF Len(parts2) > MAX_CONTEXT_CHARS \div 20 THEN parts2
                      ELSE RemainingPass(payload, i + 1, seen2, parts2)

\* lines 61-78 of _payload_context: the context before the cap is applied
AssembledContext(payload) ==
    LET first == PreferredPass(payload, 1, {}, <<>>)
        parts == RemainingPass(payload, 1, first.seen, first.parts)
    IN  join(" | ", parts)

\* _payload_context(payload)
_payload_context(payload) ==
    LET context == AssembledContext(payload)
    IN  IF Len(context) > MAX_CONTEXT_CHARS
        THEN rsplit_head(Prefix(context, MAX_CONTEXT_CHARS))
        ELSE context

\* point.payload or {}
PayloadOf(point) == IF Truthy(point.payload) THEN point.payload.v ELSE <<>>

\* float(x or 0.0)
FloatOrZero(x) == IF Truthy(x) THEN x.v ELSE 0

\* the entry of sources the /qa handler appends for one point
SourceEntry(point) ==
    LET payload == PayloadOf(point)
    IN  [ id |-> ToString(point.id),
          score |-> FloatOrZero(point.score),
          chapter |-> Get(payload, "chapter"),
          code |-> Or(Get(payload, "HTS Number"),
                      Or(Get(payload, "htsno"), Get(payload, "hts10"))),
          description |-> Or(Get(payload, "Description"),
                             Or(Get(payload, "article"),
                                Get(payload, "Article Description"))),
          source_csv |-> Get(payload, "source_csv"),
          row_index |-> Get(payload, "row_index") ]

\* the loop over points of /qa: contexts keeps the non-empty ones
RECURSIVE AssembleContexts(_)
AssembleContexts(points) ==
    IF Len(points) = 0 THEN <<>>
    ELSE LET payload == PayloadOf(points[1])
             context == _payload_context(payload)
         IN  (IF context # ""
              THEN <<[context |-> context, payload |-> payload]>> ELSE <<>>)
             \o AssembleContexts(Tail(points))

\* sources.append(...) moved under "if context:"
AssembleSourcesOfContexts(points) ==
    LET kept == SelectSeq(points, LAMBDA p : _payload_context(PayloadOf(p)) # "")
    IN  [i \in 1..Len(kept) |-> SourceEntry(kept[i])]

AssembleSources(points) == [i \in 1..Len(points) |-> SourceEntry(points[i])]

\* "contexts" in place of "contexts[:MAX_CONTEXTS]"
ConsideredAll(contexts) == contexts

\* contexts[:MAX_CONTEXTS]
Considered(contexts) == Prefix(contexts, MAX_CONTEXTS)

\* the candidate /qa appends for a result of the QA capability, if any
Candidates(result, ctx) ==
    IF Truthy(result) /\ Truthy(Get(result.v, "answer"))
    THEN << [ answer |-> strip(Get(result.v, "answer").v),
              score |-> FloatOrZero(Get(result.v, "score")),
              context |-> ctx.context,
              payload |-> ctx.payload ] >>
    ELSE <<>>

\* max(answers, key=lambda a: a["score"]): the first of the maximal ones
RECURSIVE MaxByScore(_, _)
MaxByScore(best, rest) ==
    IF Len(rest) = 0 THEN best
    ELSE MaxByScore(IF rest[1].score > best.score THEN rest[1] ELSE best,
                    Tail(rest))

best_of(answers) == MaxByScore(answers[1], Tail(answers))

\* the supporting excerpt of the winning context
Snippet(context) ==
    IF Len(context) > EXCERPT_CHARS
    THEN rsplit_head(Prefix(context, EXCERPT_CHARS)) \o "..."
    ELSE Prefix(context, EXCERPT_CHARS)

\* how a handler ends
Ok(body) == [kind |-> "ok", status |-> 200, body |-> body]
HttpError(status, detail) == [kind |-> "http_error", status |-> status, detail |-> detail]
Unhandled(exc) == [kind |-> "exception", exc |-> exc]
NoResp == [kind |-> "none"]

\* the body /qa returns without candidates
NoCandidateBody(snapshot, question, sources) ==
    [ snapshot_id |-> snapshot, question |-> question, answer |-> NO_ANSWER,
      confidence |-> 0, sources |-> sources ]

\* the body /qa returns with candidates
SelectedBody(snapshot, question, answers, sources) ==
    LET best == best_of(answers)
        low == best.score < MIN_QA_SCORE
        answer_text == IF low \/ best.answer = "" THEN NO_ANSWER ELSE best.answer
        confidence == IF low THEN 0 ELSE best.score
    IN  [ snapshot_id |-> snapshot, question |-> question,
          answer |-> answer_text, confidence |-> confidence,
          supporting_excerpt |-> Snippet(best.context), sources |-> sources ]

\* lines 246-273 of /qa
QaBody(snapshot, question, answers, sources) ==
    IF Len(answers) = 0 THEN NoCandidateBody(snapshot, question, sources)
    ELSE SelectedBody(snapshot, question, answers, sources)

\* limit = max(1, min(req.limit, 12))
ClampLimit(limit) ==
    LET m == IF limit < MAX_LIMIT THEN limit ELSE MAX_LIMIT
    IN  IF m > MIN_LIMIT THEN m ELSE MIN_LIMIT

\* f"us_hts_{snapshot}"
CollectionName(snapshot) ==
    "us_hts_" \o (CASE snapshot.t = "str" -> snapshot.v
                    [] snapshot.t = "none" -> "None"
                    [] OTHER -> ToString(snapshot.v))

\* _encoder.encode([f"query: {q}"], normalize_embeddings=True)[0]
Encode(text) == [embedding_of |-> text]
QueryVector(q) == Encode("query: " \o q)

----------------------------------------------------------------------------
(* Inputs of the snapshot resolver *)

SnapshotIds == {"US-HTS-2025-10-18", "US-HTS-2026-01-01"}
EnvSnapshotId == "US-HTS-ENV"

\* what a JSON document in the marker file can be
MarkerDocs ==
    {MarkerDoc(s) : s \in SnapshotIds}
    \cup { DictVal(<< <<"snapshot_id", NoneVal>> >>),
           DictVal(<< <<"id", StrVal("US-HTS-2025-10-18")>> >>),
           DictVal(<<>>),
           ListVal(<<StrVal("US-HTS-2025-10-18")>>),
           StrVal("US-HTS-2025-10-18"),
           IntVal(20251018),
           NoneVal }

MarkerFiles ==
    {NoFile, Unreadable, Undecodable, InvalidJson}
    \cup {JsonFile(d) : d \in MarkerDocs}

Environments ==
    { [k \in {} |-> ""], [k \in {"SNAPSHOT_ID"} |-> EnvSnapshotId] }

Defaults == {NoneVal, StrVal("US-HTS-DEFAULT")}

NoCall == [called |-> FALSE]

----------------------------------------------------------------------------
(* Inputs of the request handlers *)

NumThreads == 2     \* worker threads of the server's thread pool
MaxHits == 6        \* the most points the vector backend holds for a query

Threads == 1..NumThreads

Questions == {"", " \t\n", "duty on horses?"}
Limits == {-1, 0, 1, 4, 13}
SemanticQueries == {"h", "horses"}

\* what _qdrant.search can raise
BackendErrors == {"ResponseHandlingException", "UnexpectedResponse"}

\* the payload stored with the point at rank i, by kind
PayloadOfKind(kind, i) ==
    CASE kind = "none" -> NoneVal
      [] kind = "blank" ->
           DictVal(<< <<"Description", StrVal("  ")>>, <<"Indent", NoneVal>>,
                      <<"notes", ListVal(<<StrVal(""), NoneVal>>)>> >>)
      [] OTHER ->
           DictVal(<< <<"chapter", StrVal("01")>>, <<"row_index", IntVal(i)>>,
                      <<"source_csv", StrVal("ch_01.csv")>>,
                      <<"HTS Number", StrVal("0101.21.00")>>,
                      <<"Description", StrVal(" Horses, purebred ")>>,
                      <<"General Rate of Duty", StrVal("Free")>>,
                      <<"Footnotes", ListVal(<<StrVal("1/"), StrVal("")>>)>> >>)

PayloadKinds == {"blank", "row"}

PointAt(i, kind) ==
    [id |-> i, score |-> IntVal(95 - 5 * i), payload |-> PayloadOfKind(kind, i)]

\* the ranked point lists a search with this limit can return
HitLists(limit, kinds) ==
    UNION { { [i \in 1..n |-> PointAt(i, c[i])] : c \in [1..n -> kinds] } :
            n \in 0..(IF limit < MaxHits THEN limit ELSE MaxHits) }

\* what _qdrant.search(limit=limit) can do
BackendOutcomes(limit, kinds) ==
    { [raised |-> e, points |-> <<>>] : e \in BackendErrors }
    \cup { [raised |-> "none", points |-> h] : h \in HitLists(limit, kinds) }

QaResult(answer, score) == DictVal(<< <<"answer", StrVal(answer)>>, <<"score", score>> >>)

\* what the extractive-QA capability can return for one context
QaResults ==
    { NoneVal,
      QaResult("", IntVal(0)),
      QaResult(" \n", IntVal(60)),
      QaResult(" Free ", IntVal(60)),
      QaResult("Horses", IntVal(20)),
      QaResult("01", IntVal(15)),
      DictVal(<< <<"answer", StrVal("1/")>> >>) }

NoReq == [endpoint |-> "none"]

\* the locals of a handler before it has run
LocInit ==
    [ snapshot |-> NoneVal, collection |-> "", query_vec |-> NoneVal,
      searched |-> <<>>, points |-> <<>>, contexts |-> <<>>, sources |-> <<>>,
      qa_pipe |-> 0, asked |-> <<>>, answers |-> <<>> ]

----------------------------------------------------------------------------
(* Inputs of the Store, the section classifier and the context assembler *)

MaxRows == 2            \* the most lines of the second CSV file of a snapshot
ChapterMargin == 3      \* how far the chapters tried reach outside 1..99
Overrun == 100          \* by how much the longest value exceeds the context cap
NumReaders == 2         \* processes calling active_snapshot_id() during a write

SnapshotDirs == {"US-HTS-2025-10-18", EnvSnapshotId, PLACEHOLDER}

\* the header line store.py expects, and the one of the USITC export
StoreHeaders ==
    << "Heading/Subheading", "Stat Suffix", "Article Description",
       "Unit of Quantity", "General Rate of Duty", "Special Rate of Duty",
       "Column 2 Rate of Duty" >>
ExportHeaders ==
    << "HTS Number", "Indent", "Description", "Unit of Quantity",
       "General Rate of Duty", "Special Rate of Duty", "Column 2 Rate of Duty" >>

\* a line every snapshot has, with the general rate of that snapshot
DirLine(dir) ==
    << "0103.10.00", "00", "Swine, purebred", "No.",
       (CASE dir = "US-HTS-2025-10-18" -> "Free"
          [] dir = EnvSnapshotId -> "1%"
          [] OTHER -> "2%"),
       "Free (A)", "20%" >>

CsvLines ==
    { << "0101.21.00", "10", "Horses", "No.", "Free", "", "20%" >>,
      << "0101.21.00", " 10 ", "Horses, other", "No.", "5%", "Free (A)", "30%" >>,
      << "", "", "Live animals", "", "", "", "" >>,
      << "0102 29 40", "24", "Cattle", "No.", "1 cent/kg", "Free", "5.5 cents/kg" >>,
      << "Ch", "", "Notes" >> }

LineLists == UNION { [1..n -> CsvLines] : n \in 0..MaxRows }

\* a snapshot root: every snapshot directory holds two CSV files
SnapshotRoots ==
    { [d \in SnapshotDirs |->
         << CsvFile(StoreHeaders, <<DirLine(d)>>), CsvFile(h, lines) >>] :
      h \in {StoreHeaders, ExportHeaders}, lines \in LineLists }

Codes ==
    { "", " ", "0101.21.0010", "0101 .21.00 10", "0102294024", "0103.10.0000",
      "Ch", "9999.99.9999" }

SearchQueries == {"h", "horses"}

ChapterInputs ==
    {NoneVal} \cup {IntVal(n) : n \in (1 - ChapterMargin)..(99 + ChapterMargin)}

\* s repeated n times
RECURSIVE Rep(_, _)
Rep(s, n) ==
    IF n = 0 THEN ""
    ELSE LET h == Rep(s, n \div 2)
         IN  h \o h \o (IF n % 2 = 1 THEN s ELSE "")

\* values around the cap: "Description: " and 1187 characters make 1200
ContextValues ==
    { Rep(u, n) : u \in {"x", "ab "},
                  n \in {1, MAX_CONTEXT_CHARS \div 3, MAX_CONTEXT_CHARS - 14,
                         MAX_CONTEXT_CHARS - 13, MAX_CONTEXT_CHARS - 12,
                         MAX_CONTEXT_CHARS + Overrun} }

ContextKeys ==
    { "Description", "notes", Rep("K", MAX_CONTEXT_CHARS - 1),
      Rep("K", MAX_CONTEXT_CHARS) }

ContextPayloads ==
    LET fields == { <<k, StrVal(v)>> : k \in ContextKeys, v \in ContextValues }
        tails == { <<"source_csv", StrVal("ch_01.csv")>>,
                   <<"Footnotes", ListVal(<<StrVal("1/"), StrVal("see note 2")>>)>> }
    IN  { <<f>> : f \in fields } \cup { <<f, g>> : f \in fields, g \in tails }

Readers == 1..NumReaders

\* a reader that is not inside active_snapshot_id()
ReaderIdle == [pc |-> "idle", afterWrite |-> FALSE, found |-> FALSE, result |-> NoCall]

\* the state of the Store, of the direct calls and of the marker's writer and
\* readers while none of them has run
AuxInit ==
    /\ fsys = [d \in SnapshotDirs |-> <<>>]
    /\ store = NoStore
    /\ call = NoCall
    /\ writer = "idle"
    /\ readers = [r \in Readers |-> ReaderIdle]

\* no request is being handled
ReqIdle ==
    /\ snapCall = NoCall
    /\ pc = [t \in Threads |-> "idle"]
    /\ req = [t \in Threads |-> NoReq]
    /\ loc = [t \in Threads |-> LocInit]
    /\ resp = [t \in Threads |-> NoResp]
    /\ qaCache = 0
    /\ qaBuilt = 0

----------------------------------------------------------------------------
(* The snapshot resolver on its own *)

InitSnapshot ==
    /\ marker \in MarkerFiles
    /\ environ \in Environments
    /\ snapCall = NoCall
    /\ pc = [t \in Threads |-> "idle"]
    /\ req = [t \in Threads |-> NoReq]
    /\ loc = [t \in Threads |-> LocInit]
    /\ resp = [t \in Threads |-> NoResp]
    /\ qaCache = 0
    /\ qaBuilt = 0
    /\ AuxInit

\* a caller evaluates active_snapshot_id(default)
CallActiveSnapshotId ==
    \E default \in Defaults :
        /\ snapCall' = [called |-> TRUE, default |-> default, file |-> marker,
                        env |-> environ,
                        result |-> active_snapshot_id(default, marker, environ)]
        /\ UNCHANGED <<marker, environ>>
        /\ UNCHANGED <<reqVars, auxVars>>

\* a writer runs set_active(snapshot_id)
SetActive ==
    \E s \in SnapshotIds :
        /\ marker' = set_active(s)
        /\ UNCHANGED <<environ, snapCall>>
        /\ UNCHANGED <<reqVars, auxVars>>

\* anything outside the process replaces or removes the marker file
MarkerReplaced ==
    \E f \in MarkerFiles :
        /\ marker' = f
        /\ UNCHANGED <<environ, snapCall>>
        /\ UNCHANGED <<reqVars, auxVars>>

NextSnapshot == CallActiveSnapshotId \/ SetActive \/ MarkerReplaced

SpecSnapshot == InitSnapshot /\ [][NextSnapshot]_vars

----------------------------------------------------------------------------
(* src/api/routes/v1.py: the handlers, one worker thread t per request *)

Init ==
    /\ marker \in {set_active("US-HTS-2025-10-18"),
                   JsonFile(ListVal(<<StrVal("US-HTS-2025-10-18")>>))}
    /\ environ = [k \in {"SNAPSHOT_ID"} |-> EnvSnapshotId]
    /\ snapCall = NoCall
    /\ pc = [t \in Threads |-> "idle"]
    /\ req = [t \in Threads |-> NoReq]
    /\ loc = [t \in Threads |-> LocInit]
    /\ resp = [t \in Threads |-> NoResp]
    /\ qaCache = 0
    /\ qaBuilt = 0
    /\ AuxInit

\* the handler of thread t ends with response r
Respond(t, r) ==
    /\ pc' = [pc EXCEPT ![t] = "responded"]
    /\ resp' = [resp EXCEPT ![t] = r]

\* the record of one _qdrant.search call
SearchCall(collection, query_vec, limit, outcome) ==
    [ collection |-> collection, query_vector |-> query_vec, limit |-> limit,
      raised |-> outcome.raised, returned |-> Len(outcome.points) ]

\* the item /semantic_search returns for one point, lines 162-174
SemanticItem(p) ==
    [ id |-> ToString(p.id),
      score |-> p.score.v,
      chapter |-> Get(p.payload.v, "chapter"),
      article |-> Get(p.payload.v, "article"),
      code |-> Or(Get(p.payload.v, "htsno"), Get(p.payload.v, "hts10")),
      rates |-> [ general |-> Get(p.payload.v, "rate_general"),
                  special |-> Get(p.payload.v, "rate_special"),
                  col2 |-> Get(p.payload.v, "rate_col2") ],
      source_csv |-> Get(p.payload.v, "source_csv") ]

\* GET /semantic_search: the whole handler
semantic_search(t, queries, limits, kinds) ==
    /\ pc[t] = "idle"
    /\ \E q \in queries, limit \in limits :
         LET snap == active_snapshot_id(NoneVal, marker, environ)
             collection == CollectionName(snap.value)
             vec == QueryVector(q)
         IN  /\ req' = [req EXCEPT ![t] = [endpoint |-> "semantic_search",
                                           question |-> q, limit |-> limit]]
             /\ IF Len(q) < MIN_QUERY_LEN
                THEN /\ Respond(t, HttpError(422, "string too short"))
                     /\ loc' = [loc EXCEPT ![t] = LocInit]
                ELSE IF snap.raised # "none"
                THEN /\ Respond(t, Unhandled(snap.raised))
                     /\ loc' = [loc EXCEPT ![t] = LocInit]
                ELSE \E out \in BackendOutcomes(limit, kinds) :
                       /\ loc' = [loc EXCEPT ![t] =
                             [LocInit EXCEPT !.snapshot = snap.value,
                                             !.collection = collection,
                                             !.query_vec = vec,
                                             !.searched = <<SearchCall(collection, vec, limit, out)>>,
                                             !.points = out.points]]
                       /\ Respond(t,
                            IF out.raised # "none" THEN Unhandled(out.raised)
                            ELSE IF \E i \in 1..Len(out.points) :
                                        out.points[i].payload = NoneVal
                            THEN Unhandled("AttributeError")
                            ELSE Ok([ snapshot_id |-> snap.value,
                                      items |-> [i \in 1..Len(out.points) |->
                                                   SemanticItem(out.points[i])] ]))
    /\ UNCHANGED <<auxVars, marker, environ, snapCall, qaCache, qaBuilt>>

\* POST /qa arrives: pydantic has parsed QARequest(question, limit)
QaReceive(t, questions, limits) ==
    /\ pc[t] = "idle"
    /\ \E q \in questions, limit \in limits :
         req' = [req EXCEPT ![t] = [endpoint |-> "qa", question |-> q, limit |-> limit]]
    /\ pc' = [pc EXCEPT ![t] = "qa_received"]
    /\ loc' = [loc EXCEPT ![t] = LocInit]
    /\ resp' = [resp EXCEPT ![t] = NoResp]
    /\ UNCHANGED <<auxVars, marker, environ, snapCall, qaCache, qaBuilt>>

\* not req.question
QuestionIsEmptyUnstripped(question) == question = ""

\* not req.question.strip()
QuestionIsEmpty(question) == strip(question) = ""

\* lines 188-189
QaValidate(t) ==
    /\ pc[t] = "qa_received"
    /\ IF QuestionIsEmpty(req[t].question)
       THEN Respond(t, HttpError(400, "question cannot be empty"))
       ELSE /\ pc' = [pc EXCEPT ![t] = "qa_validated"]
            /\ UNCHANGED resp
    /\ UNCHANGED <<auxVars, marker, environ, snapCall, req, loc, qaCache, qaBuilt>>

\* lines 191-192
QaResolveSnapshot(t) ==
    /\ pc[t] = "qa_validated"
    /\ LET snap == active_snapshot_id(NoneVal, marker, environ)
       IN  IF snap.raised # "none"
           THEN /\ Respond(t, Unhandled(snap.raised))
                /\ UNCHANGED loc
           ELSE /\ loc' = [loc EXCEPT ![t].snapshot = snap.value,
                                      ![t].collection = CollectionName(snap.value)]
                /\ pc' = [pc EXCEPT ![t] = "qa_resolved"]
                /\ UNCHANGED resp
    /\ UNCHANGED <<auxVars, marker, environ, snapCall, req, qaCache, qaBuilt>>

\* line 193
QaEmbed(t) ==
    /\ pc[t] = "qa_resolved"
    /\ loc' = [loc EXCEPT ![t].query_vec = QueryVector(req[t].question)]
    /\ pc' = [pc EXCEPT ![t] = "qa_embedded"]
    /\ UNCHANGED <<auxVars, marker, environ, snapCall, req, resp, qaCache, qaBuilt>>

\* lines 203-204 without the "if not points" of lines 206-207
SearchVerdictWithoutEmptyCheck(out) ==
    IF out.raised # "none" THEN HttpError(503, "qdrant error: " \o out.raised)
    ELSE NoResp

\* what /qa does with the outcome of the search, lines 203-207
SearchVerdict(out) ==
    IF out.raised # "none" THEN HttpError(503, "qdrant error: " \o out.raised)
    ELSE IF Len(out.points) = 0 THEN HttpError(404, "no relevant context found")
    ELSE NoResp

\* lines 195-207
QaSearch(t, kinds) ==
    /\ pc[t] = "qa_embedded"
    /\ LET limit == ClampLimit(req[t].limit)
       IN  \E out \in BackendOutcomes(limit, kinds) :
             /\ loc' = [loc EXCEPT
                   ![t].searched = <<SearchCall(loc[t].collection, loc[t].query_vec, limit, out)>>,
                   ![t].points = out.points]
             /\ IF SearchVerdict(out) # NoResp
                THEN Respond(t, SearchVerdict(out))
                ELSE /\ pc' = [pc EXCEPT ![t] = "qa_retrieved"]
                     /\ UNCHANGED resp
    /\ UNCHANGED <<auxVars, marker, environ, snapCall, req, qaCache, qaBuilt>>

\* lines 209-230
QaAssemble(t) ==
    /\ pc[t] = "qa_retrieved"
    /\ loc' = [loc EXCEPT ![t].contexts = AssembleContexts(loc[t].points),
                          ![t].sources = AssembleSources(loc[t].points)]
    /\ pc' = [pc EXCEPT ![t] = "qa_assembled"]
    /\ UNCHANGED <<auxVars, marker, environ, snapCall, req, resp, qaCache, qaBuilt>>

\* line 232, get_qa_pipeline(): the lru_cache lookup
QaPipelineLookup(t) ==
    /\ pc[t] = "qa_assembled"
    /\ IF qaCache # 0
       THEN /\ loc' = [loc EXCEPT ![t].qa_pipe = qaCache]
            /\ pc' = [pc EXCEPT ![t] = "qa_extracting"]
       ELSE /\ pc' = [pc EXCEPT ![t] = "qa_constructing"]
            /\ UNCHANGED loc
    /\ UNCHANGED <<auxVars, marker, environ, snapCall, req, resp, qaCache, qaBuilt>>

\* what the cache holds once a miss has computed inst
CacheAfterMiss(cache, inst) == IF cache = 0 THEN inst ELSE cache

\* get_qa_pipeline() after a miss: pipeline(...) returns and is stored
QaPipelineConstruct(t) ==
    /\ pc[t] = "qa_constructing"
    /\ qaBuilt' = qaBuilt + 1
    /\ qaCache' = CacheAfterMiss(qaCache, qaBuilt + 1)
    /\ loc' = [loc EXCEPT ![t].qa_pipe = qaBuilt + 1]
    /\ pc' = [pc EXCEPT ![t] = "qa_extracting"]
    /\ UNCHANGED <<auxVars, marker, environ, snapCall, req, resp>>

\* lines 234-244, one turn of the loop
QaExtract(t, results) ==
    /\ pc[t] = "qa_extracting"
    /\ Len(loc[t].asked) < Len(Considered(loc[t].contexts))
    /\ LET ctx == Considered(loc[t].contexts)[Len(loc[t].asked) + 1]
       IN  \E result \in results :
             loc' = [loc EXCEPT
                ![t].asked = Append(@, [pipe |-> loc[t].qa_pipe,
                                        question |-> req[t].question,
                                        context |-> ctx.context]),
                ![t].answers = @ \o Candidates(result, ctx)]
    /\ UNCHANGED <<auxVars, marker, environ, snapCall, pc, req, resp, qaCache, qaBuilt>>

\* lines 246-273
QaSelect(t) ==
    /\ pc[t] = "qa_extracting"
    /\ Len(loc[t].asked) = Len(Considered(loc[t].contexts))
    /\ Respond(t, Ok(QaBody(loc[t].snapshot, req[t].question,
                            loc[t].answers, loc[t].sources)))
    /\ UNCHANGED <<auxVars, marker, environ, snapCall, req, loc, qaCache, qaBuilt>>

\* the response is sent and the worker thread is free again
Complete(t) ==
    /\ pc[t] = "responded"
    /\ pc' = [pc EXCEPT ![t] = "idle"]
    /\ req' = [req EXCEPT ![t] = NoReq]
    /\ loc' = [loc EXCEPT ![t] = LocInit]
    /\ resp' = [resp EXCEPT ![t] = NoResp]
    /\ UNCHANGED <<auxVars, marker, environ, snapCall, qaCache, qaBuilt>>

\* one request at a time, over all inputs
Next ==
    \/ semantic_search(1, SemanticQueries, Limits, PayloadKinds \cup {"none"})
    \/ QaReceive(1, Questions, Limits)
    \/ QaValidate(1)
    \/ QaResolveSnapshot(1)
    \/ QaEmbed(1)
    \/ QaSearch(1, PayloadKinds)
    \/ QaAssemble(1)
    \/ QaPipelineLookup(1)
    \/ QaPipelineConstruct(1)
    \/ QaExtract(1, QaResults)
    \/ QaSelect(1)
    \/ Complete(1)

Spec == Init /\ [][Next]_vars

\* two worker threads, each on a /qa request with hits
NextConc ==
    \E t \in Threads :
        \/ QaReceive(t, {"duty on horses?"}, {1})
        \/ QaValidate(t)
        \/ QaResolveSnapshot(t)
        \/ QaEmbed(t)
        \/ QaSearch(t, {"row"})
        \/ QaAssemble(t)
        \/ QaPipelineLookup(t)
        \/ QaPipelineConstruct(t)
        \/ QaExtract(t, {NoneVal, QaResult(" Free ", IntVal(60))})
        \/ QaSelect(t)
        \/ Complete(t)

SpecConc == Init /\ [][NextConc]_vars

\* one /qa request at a time with a question that passes validation, over
\* every hit list and with the capability answering or not
NextQa ==
    \/ QaReceive(1, {"duty on horses?"}, {4, 13})
    \/ QaValidate(1)
    \/ QaResolveSnapshot(1)
    \/ QaEmbed(1)
    \/ QaSearch(1, PayloadKinds \cup {"none"})
    \/ QaAssemble(1)
    \/ QaPipelineLookup(1)
    \/ QaPipelineConstruct(1)
    \/ QaExtract(1, {NoneVal, QaResult(" Free ", IntVal(60))})
    \/ QaSelect(1)
    \/ Complete(1)

SpecQa == Init /\ [][NextQa]_vars

----------------------------------------------------------------------------
(* src/common/sections.py: the classifier called directly *)

\* a process that calls a helper directly
InitDirect ==
    /\ marker = NoFile
    /\ environ = [k \in {} |-> ""]
    /\ ReqIdle
    /\ AuxInit

\* chapter_to_section(ch); the call keeps the argument and result before it
ClassifyChapter ==
    /\ \E ch \in ChapterInputs :
         call' = [ called |-> TRUE, fn |-> "chapter_to_section", arg |-> ch,
                   result |-> chapter_to_section(ch),
                   before |-> IF call.called THEN <<call.arg, call.result>>
                              ELSE <<>> ]
    /\ UNCHANGED <<snapVars, reqVars, fsys, store, writer, readers>>

NextSections == ClassifyChapter

SpecSections == InitDirect /\ [][NextSections]_vars

----------------------------------------------------------------------------
(* src/api/routes/v1.py: the context assembler called directly *)

\* _payload_context(payload)
BuildContext ==
    /\ \E payload \in ContextPayloads :
         call' = [ called |-> TRUE, fn |-> "_payload_context", arg |-> payload,
                   result |-> _payload_context(payload) ]
    /\ UNCHANGED <<snapVars, reqVars, fsys, store, writer, readers>>

NextContext == BuildContext

SpecContext == InitDirect /\ [][NextContext]_vars

----------------------------------------------------------------------------
(* src/common/store.py and the /tariff and /search handlers of v1.py *)

InitStore ==
    /\ marker \in {NoFile, InvalidJson, set_active("US-HTS-2025-10-18")}
    /\ environ \in Environments
    /\ ReqIdle
    /\ fsys \in SnapshotRoots
    /\ store = NoStore
    /\ call = NoCall
    /\ writer = "idle"
    /\ readers = [r \in Readers |-> ReaderIdle]

\* "store = Store()" when the router module is imported
StoreConstruct ==
    /\ ~store.built
    /\ store' = Store(fsys, environ)
    /\ UNCHANGED <<snapVars, reqVars, fsys, call, writer, readers>>

\* store.get_by_code(code) called directly
GetByCode ==
    /\ store.built
    /\ ~call.called
    /\ \E code \in Codes :
         call' = [ called |-> TRUE, fn |-> "get_by_code", arg |-> code,
                   result |-> Returned(get_by_code(store, code)) ]
    /\ UNCHANGED <<snapVars, reqVars, fsys, store, writer, readers>>

\* the text of dev_citation is "HTSUS", a section sign and str(section), then
\* ", Ch." and the chapter, then ", " and the code: its three interpolated values
DevCitation(section, chap, code) ==
    << (IF section = NoneVal THEN "None" ELSE section.v), ToString(chap), code >>

\* the handler of POST /tariff, lines 91-108 (without the constant disclaimer)
TariffResponse(st, code, file, env) ==
    LET r == get_by_code(st, code)
        snap == active_snapshot_id(NoneVal, file, env)
    IN  IF r = NoneVal THEN HttpError(404, "code not found")
        ELSE IF snap.raised # "none" THEN Unhandled(snap.raised)
        ELSE Ok([ snapshot_id |-> snap.value,
                  code |-> r.hts10,
                  chapter |-> r.chapter,
                  section |-> chapter_to_section(IntVal(r.chapter)),
                  rates |-> [ general |-> r.rate_general,
                              special |-> r.rate_special,
                              col2 |-> r.rate_col2 ],
                  dev_citation |->
                      DevCitation(chapter_to_section(IntVal(r.chapter)),
                                  r.chapter, r.hts10) ])

\* POST /tariff
tariff ==
    /\ store.built
    /\ ~call.called
    /\ \E code \in Codes :
         call' = [ called |-> TRUE, fn |-> "tariff", arg |-> code,
                   result |-> TariffResponse(store, code, marker, environ) ]
    /\ UNCHANGED <<snapVars, reqVars, fsys, store, writer, readers>>

\* Store.search_article(q, limit=10): rapidfuzz ranks every row (there are
\* fewer than limit); its result tuples are (choice, score, index), which line
\* 67 unpacks as (label, score, (text, i)), so with rows the call either
\* returns them in some order or raises on the unpacking
SearchArticleOutcomes(st) ==
    LET n == Len(st._rows)
        orders == {f \in [1..n -> 1..n] : \A i, j \in 1..n : f[i] = f[j] => i = j}
    IN  { Returned([i \in 1..n |-> st._rows[f[i]]]) : f \in orders }
        \cup (IF n > 0 THEN {Raised("TypeError")} ELSE {})

\* one item of the /search response, lines 119-132
SearchItem(r) ==
    [ code |-> r.hts10, chapter |-> r.chapter,
      section |-> chapter_to_section(IntVal(r.chapter)),
      article |-> r.article, uoq |-> r.uoq,
      rates |-> [ general |-> r.rate_general, special |-> r.rate_special,
                  col2 |-> r.rate_col2 ],
      dev_citation |-> DevCitation(chapter_to_section(IntVal(r.chapter)),
                                   r.chapter, r.hts10) ]

\* the handler of GET /search, lines 113-135 (without the constant disclaimer)
SearchResponse(q, found, file, env) ==
    LET snap == active_snapshot_id(NoneVal, file, env)
    IN  IF Len(q) < MIN_QUERY_LEN THEN HttpError(422, "string too short")
        ELSE IF found.raised # "none" THEN Unhandled(found.raised)
        ELSE IF snap.raised # "none" THEN Unhandled(snap.raised)
        ELSE Ok([ snapshot_id |-> snap.value,
                  items |-> [i \in 1..Len(found.value) |->
                               SearchItem(found.value[i])] ])

\* GET /search
search ==
    /\ store.built
    /\ ~call.called
    /\ \E q \in SearchQueries, found \in SearchArticleOutcomes(store) :
         call' = [ called |-> TRUE, fn |-> "search", arg |-> q,
                   result |-> SearchResponse(q, found, marker, environ) ]
    /\ UNCHANGED <<snapVars, reqVars, fsys, store, writer, readers>>

\* the caller has its result or response and the next call can be made
CallDone ==
    /\ store.built
    /\ call.called
    /\ call' = NoCall
    /\ UNCHANGED <<snapVars, reqVars, fsys, store, writer, readers>>

NextStore == StoreConstruct \/ GetByCode \/ tariff \/ search \/ CallDone

SpecStore == InitStore /\ [][NextStore]_vars

----------------------------------------------------------------------------
(* src/common/snapshot.py: one set_active call and the calls of            *)
(* active_snapshot_id() that run beside it, step by step                   *)

OldId == "US-HTS-2025-10-18"    \* the id the marker holds before the write
NewId == "US-HTS-2026-01-01"    \* the id set_active is called with

InitRace ==
    /\ marker = set_active(OldId)
    /\ environ \in Environments
    /\ ReqIdle
    /\ AuxInit

\* set_active line 7: Path(path).parent.mkdir(parents=True, exist_ok=True)
WriterMkdir ==
    /\ writer = "idle"
    /\ writer' = "mkdir_done"
    /\ UNCHANGED <<snapVars, reqVars, fsys, store, call, readers>>

\* write_text opens the file for writing, which truncates it: the file
\* exists and holds the empty text, which json.loads rejects
WriterOpen ==
    /\ writer = "mkdir_done"
    /\ writer' = "opened"
    /\ marker' = InvalidJson
    /\ UNCHANGED <<environ, snapCall, reqVars, fsys, store, call, readers>>

\* write_text writes the document and closes the file
WriterWrite ==
    /\ writer = "opened"
    /\ writer' = "done"
    /\ marker' = set_active(NewId)
    /\ UNCHANGED <<environ, snapCall, reqVars, fsys, store, call, readers>>

\* reader r enters active_snapshot_id()
ReaderCall(r) ==
    /\ readers[r].pc = "idle"
    /\ readers' = [readers EXCEPT ![r] =
                     [ReaderIdle EXCEPT !.pc = "called",
                                        !.afterWrite = (writer = "done")]]
    /\ UNCHANGED <<snapVars, reqVars, fsys, store, call, writer>>

\* line 19: Path(ACTIVE).exists()
ReaderExists(r) ==
    /\ readers[r].pc = "called"
    /\ readers' = [readers EXCEPT ![r].pc = "checked",
                                  ![r].found = exists(marker)]
    /\ UNCHANGED <<snapVars, reqVars, fsys, store, call, writer>>

\* lines 20-26 once exists() has answered: the read, the except clause and
\* the fallback
ResolveAfterExists(found, file, env) ==
    LET r == get_active(file)
        fallback == Returned(getenv(env, "SNAPSHOT_ID", StrVal(PLACEHOLDER)))
    IN  IF ~found THEN fallback
        ELSE IF r.raised = "none" THEN r
        ELSE IF r.raised \notin CaughtByResolver THEN r
        ELSE fallback

\* lines 20-26: reader r reads the marker as it is now and returns
ReaderRead(r) ==
    /\ readers[r].pc = "checked"
    /\ readers' = [readers EXCEPT
                     ![r].pc = "returned",
                     ![r].result = ResolveAfterExists(readers[r].found,
                                                      marker, environ)]
    /\ UNCHANGED <<snapVars, reqVars, fsys, store, call, writer>>

\* the caller of reader r takes the result; r can call again
ReaderDone(r) ==
    /\ readers[r].pc = "returned"
    /\ readers' = [readers EXCEPT ![r] = ReaderIdle]
    /\ UNCHANGED <<snapVars, reqVars, fsys, store, call, writer>>

NextRace ==
    \/ WriterMkdir
    \/ WriterOpen
    \/ WriterWrite
    \/ \E r \in Readers :
         ReaderCall(r) \/ ReaderExists(r) \/ ReaderRead(r) \/ ReaderDone(r)

SpecRace == InitRace /\ [][NextRace]_vars

----------------------------------------------------------------------------
(* Properties *)

\* thread t has answered a /qa request successfully
QaAnswered(t) ==
    /\ req[t].endpoint = "qa"
    /\ pc[t] = "responded"
    /\ resp[t].kind = "ok"

\* the search of thread t's request, once issued
Searched(t) == Len(loc[t].searched) = 1
TheSearch(t) == loc[t].searched[1]

\* the first candidate of maximal score
Winner(answers) ==
    answers[CHOOSE i \in 1..Len(answers) :
              /\ \A j \in 1..Len(answers) : answers[j].score <= answers[i].score
              /\ \A j \in 1..(i - 1) : answers[j].score < answers[i].score]

\* C1: with candidates, the response carries the text and the confidence of
\* the first candidate of maximal score when that score reaches MIN_QA_SCORE,
\* and the sentinel with confidence 0 when it does not.
C1_WinnerAnswered ==
    \A t \in Threads :
        QaAnswered(t) /\ Len(loc[t].answers) > 0 =>
            LET w == Winner(loc[t].answers)
            IN  IF w.score >= MIN_QA_SCORE
                THEN /\ resp[t].body.answer = w.answer
                     /\ resp[t].body.confidence = w.score
                ELSE /\ resp[t].body.answer = NO_ANSWER
                     /\ resp[t].body.confidence = 0

\* C2: a successful /qa response lists one source per retrieved hit, in
\* retrieval order, whatever the contexts and the answer were.
C2_SourcePerHit ==
    \A t \in Threads :
        QaAnswered(t) =>
            /\ Len(resp[t].body.sources) = Len(loc[t].points)
            /\ \A i \in 1..Len(loc[t].points) :
                 /\ resp[t].body.sources[i].id = ToString(loc[t].points[i].id)
                 /\ resp[t].body.sources[i].score = loc[t].points[i].score.v

\* C2's case: more non-empty contexts than were extracted from, no answer
C2_Witness ==
    \E t \in Threads :
        /\ QaAnswered(t)
        /\ Len(loc[t].contexts) > MAX_CONTEXTS
        /\ Len(loc[t].asked) = MAX_CONTEXTS
        /\ resp[t].body.answer = NO_ANSWER

\* C3: a /qa request whose search returned no hit has ended in the 404
\* "no relevant context found" without a body, and has neither obtained nor
\* invoked the QA capability.
C3_NoHitsNotFound ==
    \A t \in Threads :
        (/\ req[t].endpoint = "qa"
         /\ Searched(t)
         /\ TheSearch(t).raised = "none"
         /\ TheSearch(t).returned = 0)
        => /\ pc[t] = "responded"
           /\ resp[t] = HttpError(404, "no relevant context found")
           /\ "body" \notin DOMAIN resp[t]
           /\ loc[t].sources = <<>>
           /\ loc[t].qa_pipe = 0
           /\ loc[t].asked = <<>>

\* C3's case: a search that returned nothing while the capability exists
C3_Witness ==
    \E t \in Threads :
        /\ req[t].endpoint = "qa"
        /\ Searched(t)
        /\ TheSearch(t).raised = "none"
        /\ TheSearch(t).returned = 0
        /\ qaCache # 0

\* a question of whitespace only
IsBlank(q) == \A i \in 1..Len(q) : IsSpace(SubSeq(q, i, i))

\* C4: a /qa request with a blank question, once past validation, has ended
\* in the 400 "question cannot be empty" with no snapshot resolved, no
\* embedding, no search, no capability and no extraction.
C4_BlankQuestionRejectedFirst ==
    \A t \in Threads :
        (/\ req[t].endpoint = "qa"
         /\ IsBlank(req[t].question)
         /\ pc[t] # "qa_received")
        => /\ pc[t] = "responded"
           /\ resp[t] = HttpError(400, "question cannot be empty")
           /\ loc[t].snapshot = NoneVal
           /\ loc[t].query_vec = NoneVal
           /\ loc[t].searched = <<>>
           /\ loc[t].qa_pipe = 0
           /\ loc[t].asked = <<>>

\* C4's case: a whitespace-only question has been answered
C4_Witness ==
    \E t \in Threads :
        /\ req[t].endpoint = "qa"
        /\ req[t].question = " \t\n"
        /\ pc[t] = "responded"

\* C5: a request whose vector search raised ends in the 503 that carries the
\* cause, on either endpoint.
C5_BackendFailureSurfaced ==
    \A t \in Threads :
        (pc[t] = "responded" /\ Searched(t) /\ TheSearch(t).raised # "none")
        => /\ resp[t].kind = "http_error"
           /\ resp[t].status = 503
           /\ resp[t].detail = "qdrant error: " \o TheSearch(t).raised

\* C6: the limit of every vector search is max(1, min(limit, 12)), on either
\* endpoint.
C6_LimitClamped ==
    \A t \in Threads :
        Searched(t) =>
            /\ TheSearch(t).limit \in 1..12
            /\ TheSearch(t).limit =
                 (IF req[t].limit > 12 THEN 12
                  ELSE IF req[t].limit < 1 THEN 1 ELSE req[t].limit)

\* C7: a successful /qa response with the sentinel answer has no supporting
\* excerpt.
C7_NoExcerptWithoutAnswer ==
    \A t \in Threads :
        QaAnswered(t) /\ resp[t].body.answer = NO_ANSWER
        => "supporting_excerpt" \notin DOMAIN resp[t].body

\* a marker that parses as an object with the id field
ValidMarker(file) ==
    /\ file.kind = "json"
    /\ file.doc.t = "dict"
    /\ HasKey(file.doc.v, "snapshot_id")

\* the environment override if set, else the placeholder
Fallback(env) ==
    IF "SNAPSHOT_ID" \in DOMAIN env THEN StrVal(env["SNAPSHOT_ID"])
    ELSE StrVal("US-HTS-YYYY-MM-DD")

\* C8: active_snapshot_id() returns the id of a valid marker, else the
\* environment override, else the placeholder.
C8_Precedence ==
    snapCall.called /\ snapCall.default = NoneVal =>
        snapCall.result =
            IF ValidMarker(snapCall.file)
            THEN Returned(Get(snapCall.file.doc.v, "snapshot_id"))
            ELSE Returned(Fallback(snapCall.env))

\* C9: whatever an existing marker file holds short of a valid marker,
\* active_snapshot_id() raises nothing and returns the fallback id.
C9_MarkerFailuresSwallowed ==
    (/\ snapCall.called
     /\ snapCall.default = NoneVal
     /\ exists(snapCall.file)
     /\ ~ValidMarker(snapCall.file))
    => /\ snapCall.result.raised = "none"
       /\ snapCall.result.value = Fallback(snapCall.env)

\* C10: pipeline(...) is constructed at most once and every request that
\* holds the capability holds the same instance.
C10_OnePipeline ==
    /\ qaBuilt <= 1
    /\ \A t, u \in Threads :
         loc[t].qa_pipe # 0 /\ loc[u].qa_pipe # 0 => loc[t].qa_pipe = loc[u].qa_pipe

\* the id the resolver reports for the marker and environment of the process:
\* the id of a valid marker, else the override, else the placeholder
ActiveAtStart ==
    IF ValidMarker(marker) THEN Get(marker.doc.v, "snapshot_id")
    ELSE Fallback(environ)

\* the dicts read from the CSV files of a snapshot directory
SourceRows(dir) == RowsOfFiles(fsys[dir])

\* C11: the Store holds the records of the snapshot the resolver reports as
\* active when the Store is constructed, its rows and index never change once
\* built, and with the marker untouched since the start every successful
\* /tariff or /search response names in snapshot_id the snapshot the records
\* were loaded from.
C11_StoreLoadsActiveSnapshot ==
    /\ [](store.built =>
            /\ StrVal(store.snap) = ActiveAtStart
            /\ Len(store._rows) = Len(SourceRows(ActiveAtStart.v))
            /\ (/\ call.called
                /\ call.fn \in {"tariff", "search"}
                /\ call.result.kind = "ok")
               => call.result.body.snapshot_id = StrVal(store.snap))
    /\ [][store.built => store' = store]_vars

\* decimal texts of a chapter number as the first two characters of a heading
ChapterText(n) ==
    {ToString(n)} \cup (IF n < 10 THEN {"0" \o ToString(n)} ELSE {})

\* record rec carries the chapter and the three rates of source row src
FromSourceRow(rec, src) ==
    LET hs == IF Truthy(Get(src, "hs")) THEN Get(src, "hs").v ELSE ""
    IN  /\ rec.rate_general = Get(src, "gen")
        /\ rec.rate_special = Get(src, "spec")
        /\ rec.rate_col2 = Get(src, "col2")
        /\ rec.chapter \in 0..99
        /\ IF \E n \in 0..99 : Prefix(hs, 2) \in ChapterText(n)
           THEN Prefix(hs, 2) \in ChapterText(rec.chapter)
           ELSE rec.chapter = 0

\* C13: get_by_code(c) raises nothing; when a loaded row carries the code c
\* without its spaces and that code is not empty, it returns a record of the
\* row list with that code and with the chapter and rates of a source row
\* carrying it; otherwise it returns None, and records with an empty code
\* stay in the row list.
C13_GetByCode ==
    call.called /\ call.fn = "get_by_code" =>
        LET c == remove(call.arg, " ")
            src == SourceRows(store.snap)
            carriers == {i \in 1..Len(store._rows) : store._rows[i].hts10 = c}
        IN  /\ call.result.raised = "none"
            /\ Len(store._rows) = Len(src)
            /\ IF c # "" /\ carriers # {}
               THEN \E i \in carriers :
                      /\ call.result.value = store._rows[i]
                      /\ call.result.value.hts10 = c
                      /\ FromSourceRow(call.result.value, src[i])
               ELSE call.result.value = NoneVal

\* C13's case: a code written with spaces is found among rows of which two
\* carry it
C13_Witness ==
    /\ call.called
    /\ call.fn = "get_by_code"
    /\ call.arg = "0101 .21.00 10"
    /\ call.result.value # NoneVal
    /\ Cardinality({i \in 1..Len(store._rows) :
                      store._rows[i].hts10 = "0101.21.0010"}) = 2

\* the bands of SECTIONS that hold chapter n
BandsOf(n) ==
    {i \in 1..Len(SECTIONS) : SECTIONS[i][1] <= n /\ n <= SECTIONS[i][2]}

\* the position in SECTIONS of a label
LabelRank(label) == CHOOSE i \in 1..Len(SECTIONS) : SECTIONS[i][3] = label.v

\* C14: every chapter of 1..99 lies in exactly one band of SECTIONS and
\* chapter_to_section returns that band's label ("I" for 1, "XXII" for 99);
\* the labels of two chapters of 1..99 come in table order as the chapters
\* do; None, 0 and 100 yield None.
C14_ChapterToSectionTotal ==
    call.called /\ call.fn = "chapter_to_section" =>
        LET ch == call.arg
            inRange(x) == x # NoneVal /\ x.v \in 1..99
        IN  /\ inRange(ch) =>
                 /\ Cardinality(BandsOf(ch.v)) = 1
                 /\ call.result =
                      StrVal(SECTIONS[CHOOSE i \in BandsOf(ch.v) : TRUE][3])
            /\ ch = IntVal(1) => call.result = StrVal("I")
            /\ ch = IntVal(99) => call.result = StrVal("XXII")
            /\ ch \in {NoneVal, IntVal(0), IntVal(100)} => call.result = NoneVal
            /\ (/\ call.before # <<>>
                /\ inRange(ch)
                /\ inRange(call.before[1])
                /\ call.before[1].v <= ch.v
                /\ call.before[2] # NoneVal
                /\ call.result # NoneVal)
               => LabelRank(call.before[2]) <= LabelRank(call.result)

\* C14's case: chapter 16 classified after chapter 15, across a band boundary
C14_Witness ==
    /\ call.called
    /\ call.fn = "chapter_to_section"
    /\ call.before = <<IntVal(15), StrVal("III")>>
    /\ call.arg = IntVal(16)
    /\ call.result = StrVal("IV")

\* C12: the context returned for a payload is at most MAX_CONTEXT_CHARS long;
\* it is the assembled context itself when that fits, and otherwise a prefix
\* of it that ends just before one of its spaces, so that no word is split,
\* also when the first MAX_CONTEXT_CHARS characters hold no space.
C12_ContextCapped ==
    call.called /\ call.fn = "_payload_context" =>
        LET full == AssembledContext(call.arg)
            out == call.result
        IN  /\ Len(out) <= MAX_CONTEXT_CHARS
            /\ Len(full) <= MAX_CONTEXT_CHARS => out = full
            /\ Len(full) > MAX_CONTEXT_CHARS =>
                  /\ out = Prefix(full, Len(out))
                  /\ SubSeq(full, Len(out) + 1, Len(out) + 1) = " "

\* the non-empty contexts assembled from the points, in retrieval order
NonEmptyContexts(points) ==
    SelectSeq([i \in 1..Len(points) |-> _payload_context(PayloadOf(points[i]))],
              LAMBDA c : c # "")

\* C15: in a /qa request the capability is invoked at most MAX_CONTEXTS times,
\* the i-th invocation on the question and the i-th non-empty context in
\* retrieval order and never on an empty one; by the time the response is
\* built it has been invoked on each of the first MAX_CONTEXTS non-empty
\* contexts, whatever empty contexts lie between them.
C15_ExtractionBounded ==
    \A t \in Threads :
        req[t].endpoint = "qa" =>
            LET want == NonEmptyContexts(loc[t].points)
                asked == loc[t].asked
            IN  /\ Len(asked) <= MAX_CONTEXTS
                /\ Len(asked) <= Len(want)
                /\ \A i \in 1..Len(asked) :
                     /\ asked[i].context = want[i]
                     /\ asked[i].context # ""
                     /\ asked[i].question = req[t].question
                /\ QaAnswered(t) =>
                     Len(asked) = (IF Len(want) < MAX_CONTEXTS THEN Len(want)
                                   ELSE MAX_CONTEXTS)

\* C15's case: the first hit has an empty context and the capability has
\* still been invoked MAX_CONTEXTS times
C15_Witness ==
    \E t \in Threads :
        /\ QaAnswered(t)
        /\ Len(loc[t].points) > MAX_CONTEXTS
        /\ _payload_context(PayloadOf(loc[t].points[1])) = ""
        /\ Len(loc[t].asked) = MAX_CONTEXTS

\* C16: a successful /qa response carries the sentinel exactly when its
\* confidence is 0; any other answer comes with a confidence of at least
\* MIN_QA_SCORE and is the non-empty stripped text of a candidate.
C16_SentinelIffZeroConfidence ==
    \A t \in Threads :
        QaAnswered(t) =>
            LET body == resp[t].body
            IN  /\ body.answer = NO_ANSWER <=> body.confidence = 0
                /\ body.answer # NO_ANSWER =>
                     /\ body.confidence >= MIN_QA_SCORE
                     /\ body.answer # ""
                     /\ body.answer = strip(body.answer)
                     /\ \E i \in 1..Len(loc[t].answers) :
                          loc[t].answers[i].answer = body.answer

\* C17: with a valid marker holding OldId and one writer running
\* set_active(NewId), every active_snapshot_id() call returns OldId or NewId,
\* never a fallback id and never an exception, and a call begun after the
\* write has completed returns NewId.
C17_ReadersSeeOldOrNew ==
    \A r \in Readers :
        readers[r].pc = "returned" =>
            /\ readers[r].result.raised = "none"
            /\ readers[r].result.value \in {StrVal(OldId), StrVal(NewId)}
            /\ readers[r].afterWrite => readers[r].result.value = StrVal(NewId)

====
